---- MODULE Spec2Model ----
\* Model of PreprossingBlender.py: the batch pipeline process_glb_files and the
\* stages it calls (clear_scene, import_glb, merge_all_meshes, reduce_vertices,
\* remove_textures, add_plane_and_light, render_image/setup_camera,
\* export_to_json), over a bounded batch of bounded assets.
\*
\* Lengths are integers in units of 1e-5 model units, so that rounding to four
\* decimals (a multiple of 10 units) and the weld threshold 1e-4 (10 units) are
\* exact integer computations.
EXTENDS Integers, Sequences, FiniteSets, TLC

\* ---------------------------------------------------------------- bounds
\* Largest number of *.glb files glob returns.
NumFiles == 2
\* Largest target_vertex_count the batch is started with (1..MaxTarget).
MaxTarget == 4

\* ------------------------------------------------------ program constants
\* One model unit (1.0) in 1e-5 units.
Unit == 100000
\* remove_doubles(threshold=0.0001), in 1e-5 units.
WeldThreshold == 10
\* The Decimate modifier leaves a mesh of at most this many faces untouched.
DecimateMinFaces == 3

\* ------------------------------------------------------- sequence helpers
Range(s) == {s[i] : i \in 1..Len(s)}

Last(s) == s[Len(s)]

IsPrefix(s, t) == Len(s) <= Len(t) /\ SubSeq(t, 1, Len(s)) = s

RECURSIVE Flatten(_)
Flatten(ss) == IF ss = <<>> THEN <<>> ELSE Head(ss) \o Flatten(Tail(ss))

\* ------------------------------------------------------------- geometry
Vec(x, y, z) == <<x, y, z>>

EmptyMesh == [verts |-> <<>>, edges |-> <<>>, faces |-> <<>>]

\* A single triangle.
TriMesh ==
    [verts |-> <<Vec(0, 0, 0), Vec(123456, 0, 0), Vec(0, 100004, 0)>>,
     edges |-> <<<<1, 2>>, <<2, 3>>, <<3, 1>>>>,
     faces |-> <<<<1, 2, 3>>>>]

\* A single quadrilateral polygon (not a triangle).
QuadMesh ==
    [verts |-> <<Vec(0, 0, 0), Vec(200000, 0, 0), Vec(200000, 200000, 7),
                 Vec(0, 200000, 0)>>,
     edges |-> <<<<1, 2>>, <<2, 3>>, <<3, 4>>, <<4, 1>>>>,
     faces |-> <<<<1, 2, 3, 4>>>>]

\* A polyline without faces (glTF LINES primitive); vertices 2 and 3 are
\* closer than the weld threshold.
WireMesh ==
    [verts |-> <<Vec(0, 0, 0), Vec(100000, 0, 0), Vec(100003, 0, 0)>>,
     edges |-> <<<<1, 2>>, <<2, 3>>>>,
     faces |-> <<>>]

\* Five well separated loose points (glTF POINTS primitive).
PointMesh ==
    [verts |-> <<Vec(0, 0, 0), Vec(100000, 0, 0), Vec(200000, 0, 0),
                 Vec(300000, 0, 0), Vec(400000, 0, 0)>>,
     edges |-> <<>>,
     faces |-> <<>>]

\* An open pyramid: apex and four triangles.
PyramidMesh ==
    [verts |-> <<Vec(0, 0, 100000), Vec(100000, 100000, 0), Vec(-100000, 100000, 0),
                 Vec(-100000, -100000, 0), Vec(100000, -100000, 0)>>,
     edges |-> <<<<1, 2>>, <<1, 3>>, <<1, 4>>, <<1, 5>>,
                 <<2, 3>>, <<3, 4>>, <<4, 5>>, <<5, 2>>>>,
     faces |-> <<<<1, 2, 3>>, <<1, 3, 4>>, <<1, 4, 5>>, <<1, 5, 2>>>>]

\* ------------------------------------------------------------ materials
White == <<1, 1, 1, 1>>
Black == <<0, 0, 0, 1>>
Red == <<1, 0, 0, 1>>

\* A material: use_nodes, node_tree (has_tree = FALSE is node_tree None),
\* the node types of the tree, and diffuse_color.
Material(name, useNodes, hasTree, nodes, color) ==
    [name |-> name, use_nodes |-> useNodes, has_tree |-> hasTree,
     nodes |-> nodes, diffuse_color |-> color]

TexturedMat == Material("Textured", TRUE, TRUE, {"BSDF_PRINCIPLED", "TEX_IMAGE", "OUTPUT_MATERIAL"}, Red)
PlainMat == Material("Plain", TRUE, TRUE, {"BSDF_PRINCIPLED", "OUTPUT_MATERIAL"}, Red)
FlatMat == Material("Flat", FALSE, FALSE, {}, Red)

\* --------------------------------------------------------------- objects
\* A scene object. asset is the index of the batch file during whose
\* processing the object was created (0: present before the batch started).
Object(name, asset, type, mesh, loc, mats) ==
    [name |-> name, asset |-> asset, type |-> type, mesh |-> mesh,
     loc |-> loc, rot |-> Vec(0, 0, 0), scale |-> Vec(1, 1, 1),
     mats |-> mats]

\* The value of "no object" (Python None).
None == Object("None", 0, "NONE", EmptyMesh, Vec(0, 0, 0), <<>>)

\* Blender's startup scene.
DefaultScene ==
    <<Object("Cube", 0, "MESH", TriMesh, Vec(0, 0, 0), <<PlainMat>>),
      Object("Light", 0, "LIGHT", EmptyMesh, Vec(400000, 100000, 600000), <<>>),
      Object("Camera", 0, "CAMERA", EmptyMesh, Vec(700000, -700000, 500000), <<>>)>>

\* The contents of the input files the batch is run on: what import_glb adds
\* to the scene for asset kind k, created while processing batch file a.
AssetKinds == 1..6

AssetObjects(k, a) ==
    CASE k = 1 -> <<>>
      [] k = 2 -> <<Object("Node", a, "EMPTY", EmptyMesh, Vec(0, 0, 0), <<>>),
                    Object("GlbCamera", a, "CAMERA", EmptyMesh, Vec(Unit, 0, 0), <<>>)>>
      [] k = 3 -> <<Object("Body", a, "MESH", TriMesh, Vec(50000, 0, 12344), <<TexturedMat, PlainMat>>)>>
      [] k = 4 -> <<Object("Node", a, "EMPTY", EmptyMesh, Vec(0, 0, 0), <<>>),
                    Object("Wing", a, "MESH", QuadMesh, Vec(Unit, 0, 0), <<PlainMat>>),
                    Object("Tail", a, "MESH", TriMesh, Vec(0, Unit, 0), <<TexturedMat>>),
                    Object("Wire", a, "MESH", WireMesh, Vec(0, 0, Unit), <<>>)>>
      [] k = 5 -> <<Object("Cloud", a, "MESH", PointMesh, Vec(0, 0, 0), <<FlatMat>>)>>
      [] k = 6 -> <<Object("Hull", a, "MESH", PyramidMesh, Vec(0, 0, 0), <<TexturedMat>>)>>

\* ------------------------------------------------------- merge_all_meshes
SameObject(o, p) == o.name = p.name /\ o.asset = p.asset

\* matrix_world @ co for an unrotated object: scale, then translate. The
\* scale is kept as a whole factor per axis.
World(obj, co) ==
    <<obj.scale[1] * co[1] + obj.loc[1],
      obj.scale[2] * co[2] + obj.loc[2],
      obj.scale[3] * co[3] + obj.loc[3]>>

\* The inverse: a world position in the local space of obj.
ToLocal(obj, w) ==
    <<(w[1] - obj.loc[1]) \div obj.scale[1],
      (w[2] - obj.loc[2]) \div obj.scale[2],
      (w[3] - obj.loc[3]) \div obj.scale[3]>>

\* mesh_objects = [obj for obj in scene.objects if obj.type == 'MESH']
IsMeshObject(o) == o.type = "MESH"

MeshObjects(objs) == SelectSeq(objs, IsMeshObject)

\* A mutant of ActiveChoice: the last mesh object becomes the active one.
ActiveChoiceLast(meshObjs) == meshObjs[Len(meshObjs)]

\* view_layer.objects.active = mesh_objects[0]
ActiveChoice(meshObjs) == meshObjs[1]

\* The geometry of object o, re-indexed behind off vertices and baked into
\* the local space of the active object.
Baked(active, o, off) ==
    [verts |-> [i \in 1..Len(o.mesh.verts) |-> ToLocal(active, World(o, o.mesh.verts[i]))],
     edges |-> [i \in 1..Len(o.mesh.edges) |->
                   <<o.mesh.edges[i][1] + off, o.mesh.edges[i][2] + off>>],
     faces |-> [i \in 1..Len(o.mesh.faces) |->
                   [j \in 1..Len(o.mesh.faces[i]) |-> o.mesh.faces[i][j] + off]]]

RECURSIVE AppendMaterials(_, _)
AppendMaterials(mats, more) ==
    IF more = <<>> THEN mats
    ELSE AppendMaterials(IF Head(more) \in Range(mats) THEN mats
                         ELSE Append(mats, Head(more)), Tail(more))

RECURSIVE JoinInto(_, _)
\* bpy.ops.object.join(): the selected objects' data is appended to the
\* active object, which keeps its name and transform.
JoinInto(active, others) ==
    IF others = <<>> THEN active
    ELSE LET o == Head(others)
             b == Baked(active, o, Len(active.mesh.verts))
             joined == [active EXCEPT
                          !.mesh = [verts |-> active.mesh.verts \o b.verts,
                                    edges |-> active.mesh.edges \o b.edges,
                                    faces |-> active.mesh.faces \o b.faces],
                          !.mats = AppendMaterials(active.mats, o.mats)]
         IN JoinInto(joined, Tail(others))

\* merge_all_meshes(): the scene afterwards and the returned object.
MergeAllMeshes(objs) ==
    LET meshObjs == MeshObjects(objs) IN
    IF meshObjs = <<>> THEN [objects |-> objs, ret |-> None]
    ELSE LET act == ActiveChoice(meshObjs)
             others == SelectSeq(meshObjs, LAMBDA o : ~SameObject(o, act))
             joined == JoinInto(act, others)
             kept == SelectSeq(objs, LAMBDA o : ~IsMeshObject(o) \/ SameObject(o, act))
         IN [objects |-> [i \in 1..Len(kept) |->
                             IF SameObject(kept[i], act) THEN joined ELSE kept[i]],
             ret |-> joined]

\* -------------------------------------------------------- reduce_vertices
\* A mutant of WithinBudget: a mesh exactly at the target is decimated.
WithinBudgetStrict(initial, target) == initial < target

\* if initial_vertex_count <= target_vertex_count: return (no-op)
WithinBudget(initial, target) == initial <= target

\* decimate_ratio = target_vertex_count / initial_vertex_count, kept as the
\* exact fraction <<numerator, denominator>>.
DecimateRatio(target, initial) == <<target, initial>>

\* A mesh cut down to its first k vertices, with the edges and faces that
\* survive: one valid result of a collapse to k vertices.
Collapse(mesh, k) ==
    [verts |-> SubSeq(mesh.verts, 1, k),
     edges |-> SelectSeq(mesh.edges, LAMBDA e : e[1] <= k /\ e[2] <= k),
     faces |-> SelectSeq(mesh.faces, LAMBDA f : \A j \in 1..Len(f) : f[j] <= k)]

\* modifier_apply of a DECIMATE modifier with the given ratio: the meshes the
\* host can produce. A mesh of at most DecimateMinFaces faces is returned as
\* it is; otherwise at least one edge collapses, and how many vertices are
\* left is the host's choice.
DecimateOutcomes(mesh, ratio) ==
    IF Len(mesh.faces) <= DecimateMinFaces \/ ratio[1] >= ratio[2] THEN {mesh}
    ELSE {Collapse(mesh, k) : k \in 1..(Len(mesh.verts) - 1)}

Abs(x) == IF x < 0 THEN -x ELSE x

\* Whether two positions are closer than the weld threshold.
Near(a, b) ==
    /\ \A i \in 1..3 : Abs(a[i] - b[i]) < WeldThreshold
    /\ (a[1] - b[1]) * (a[1] - b[1]) + (a[2] - b[2]) * (a[2] - b[2])
         + (a[3] - b[3]) * (a[3] - b[3]) < WeldThreshold * WeldThreshold

\* The vertex that vertex j is welded into: the first vertex closer than
\* the threshold (j itself when none comes before it).
WeldRep(verts, j) ==
    CHOOSE i \in 1..j :
        /\ Near(verts[i], verts[j])
        /\ \A h \in 1..(i - 1) : ~Near(verts[h], verts[j])

\* The index of vertex j after the weld.
WeldIndex(verts, j) ==
    Cardinality({i \in 1..WeldRep(verts, j) : WeldRep(verts, i) = i})

RECURSIVE Dedup(_)
\* A face's vertex cycle without immediate repetitions.
Dedup(f) ==
    IF Len(f) <= 1 THEN f
    ELSE IF f[1] = f[2] THEN Dedup(Tail(f))
    ELSE <<f[1]>> \o Dedup(Tail(f))

\* bpy.ops.mesh.remove_doubles(threshold): vertices closer than the
\* threshold become one; edges and faces that degenerate are dropped.
Weld(mesh) ==
    LET v == mesh.verts
        keep == SelectSeq([i \in 1..Len(v) |-> i], LAMBDA i : WeldRep(v, i) = i)
        es == [i \in 1..Len(mesh.edges) |->
                  <<WeldIndex(v, mesh.edges[i][1]), WeldIndex(v, mesh.edges[i][2])>>]
        fs == [i \in 1..Len(mesh.faces) |->
                  Dedup([j \in 1..Len(mesh.faces[i]) |-> WeldIndex(v, mesh.faces[i][j])])]
    IN [verts |-> [i \in 1..Len(keep) |-> v[keep[i]]],
        edges |-> SelectSeq(es, LAMBDA e : e[1] # e[2]),
        faces |-> SelectSeq(fs, LAMBDA f : Cardinality(Range(f)) >= 3)]

\* --------------------------------------------------------- remove_textures
\* The body of the loop over obj.data.materials, for one material.
StripMaterial(mat) ==
    IF mat.use_nodes /\ mat.has_tree
    THEN [mat EXCEPT !.nodes = @ \ {"TEX_IMAGE"}, !.diffuse_color = White]
    ELSE mat

\* remove_textures(obj): the object afterwards.
RemoveTextures(obj) ==
    [obj EXCEPT !.mats = [i \in 1..Len(obj.mats) |-> StripMaterial(obj.mats[i])]]

\* ---------------------------------------------------------- export_to_json
\* round(x, 4): x in 1e-5 units, the result in 1e-4 units (ties to even).
Round4(x) ==
    LET q == x \div 10
        r == x % 10
    IN IF r < 5 THEN q
       ELSE IF r > 5 THEN q + 1
       ELSE IF q % 2 = 0 THEN q ELSE q + 1

Round4Vec(v) == <<Round4(v[1]), Round4(v[2]), Round4(v[3])>>

\* mesh.calc_loop_triangles(): every polygon as a fan of triangles. The
\* export computes them and does not use them.
RECURSIVE Fan(_, _)
Fan(f, k) ==
    IF k + 1 > Len(f) THEN <<>> ELSE <<<<f[1], f[k], f[k + 1]>>>> \o Fan(f, k + 1)

LoopTriangles(mesh) == Flatten([i \in 1..Len(mesh.faces) |-> Fan(mesh.faces[i], 2)])

\* A mutant of ExportFaces: the faces are exported triangulated.
ExportFacesTriangulated(mesh) ==
    LET t == LoopTriangles(mesh) IN
    [i \in 1..Len(t) |-> [j \in 1..3 |-> t[i][j] - 1]]

\* data["f"]: list(face.vertices) for face in obj.data.polygons, 0-based.
ExportFaces(mesh) ==
    [i \in 1..Len(mesh.faces) |->
        [j \in 1..Len(mesh.faces[i]) |-> mesh.faces[i][j] - 1]]

\* data["e"]: [edge.vertices[0], edge.vertices[1]] for edge in obj.data.edges.
ExportEdges(mesh) ==
    [i \in 1..Len(mesh.edges) |-> <<mesh.edges[i][1] - 1, mesh.edges[i][2] - 1>>]

\* data["v"]: the rounded world position of every vertex.
ExportVerts(obj) ==
    [i \in 1..Len(obj.mesh.verts) |-> Round4Vec(World(obj, obj.mesh.verts[i]))]

\* The dictionary export_to_json dumps.
ExportData(obj) ==
    [n |-> "airplane",
     l |-> Round4Vec(obj.loc),
     r |-> Round4Vec(obj.rot),
     s |-> Round4Vec(Vec(obj.scale[1] * Unit, obj.scale[2] * Unit, obj.scale[3] * Unit)),
     v |-> ExportVerts(obj),
     e |-> ExportEdges(obj.mesh),
     f |-> ExportFaces(obj.mesh)]

\* ------------------------------------------------------------------ state
VARIABLES
    target,             \* target_vertex_count
    nfiles,             \* len(glb_files)
    pc,                 \* the statement process_glb_files is at
    cur,                \* the index of glb_file in glb_files
    objects,            \* bpy.context.scene.objects, in enumeration order
    data,               \* bpy.data: the datablocks (meshes, materials, lights, cameras)
    merged,             \* merged_obj, a reference to a scene object
    sceneCamera,        \* scene.camera
    filepath,           \* scene.render.filepath
    original_filepath,  \* render_image's local original_filepath
    fs,                 \* the folders and files under output_folder
    json,               \* the content of each asset's JSON file
    kind,               \* which input each batch file turned out to be
    trace,              \* the stages each batch file went through, in order
    reduction,          \* what reduce_vertices did for each batch file
    preRender,          \* the scene and output path when render_image was called
    renders             \* the number of bpy.ops.render.render calls per batch file

vars == <<target, nfiles, pc, cur, objects, data, merged, sceneCamera, filepath,
          original_filepath, fs, json, kind, trace, reduction, preRender, renders>>

Files == 1..NumFiles

Ref(o) == [name |-> o.name, asset |-> o.asset]

NoneRef == Ref(None)

Lookup(objs, ref) ==
    IF \E i \in 1..Len(objs) : Ref(objs[i]) = ref
    THEN objs[CHOOSE i \in 1..Len(objs) : Ref(objs[i]) = ref]
    ELSE None

ReplaceObject(objs, new) ==
    [i \in 1..Len(objs) |-> IF SameObject(objs[i], new) THEN new ELSE objs[i]]

RemoveObject(objs, ref) == SelectSeq(objs, LAMBDA o : Ref(o) # ref)

Datablock(k, name, a) == [kind |-> k, name |-> name, asset |-> a]

\* The datablocks that come with a sequence of objects: the object data of
\* meshes, lights and cameras, and the materials of the meshes.
DataOf(objs) ==
    {Datablock(objs[i].type, objs[i].name, objs[i].asset) :
        i \in {j \in 1..Len(objs) : objs[j].type \in {"MESH", "LIGHT", "CAMERA"}}}
    \cup UNION {{Datablock("MATERIAL", objs[i].mats[j].name, objs[i].asset) :
                    j \in 1..Len(objs[i].mats)} : i \in 1..Len(objs)}

NoReduction ==
    [ran |-> FALSE, initial |-> 0, final |-> 0, ratio |-> <<0, 1>>,
     decimated |-> FALSE, welded |-> FALSE, before |-> EmptyMesh, after |-> EmptyMesh]

NoExport ==
    [n |-> "", l |-> Vec(0, 0, 0), r |-> Vec(0, 0, 0), s |-> Vec(0, 0, 0),
     v |-> <<>>, e |-> <<>>, f |-> <<>>]

Path(a, what) == [asset |-> a, what |-> what]

DefaultFilepath == Path(0, "/tmp/")
RootFolder == Path(0, "output_folder")
ModelFolder(a) == Path(a, "model_folder")
ImagePath(a) == Path(a, "png")
JsonPath(a) == Path(a, "json")

\* ------------------------------------------------------ add_plane_and_light
PlaneMesh ==
    [verts |-> <<Vec(-5 * Unit, -5 * Unit, 0), Vec(5 * Unit, -5 * Unit, 0),
                 Vec(-5 * Unit, 5 * Unit, 0), Vec(5 * Unit, 5 * Unit, 0)>>,
     edges |-> <<<<3, 1>>, <<1, 2>>, <<2, 4>>, <<4, 3>>>>,
     faces |-> <<<<1, 2, 4, 3>>>>]

PlaneMat == Material("Plane_Mat", FALSE, FALSE, {}, Black)

\* The objects add_plane_and_light links into the scene.
HelperObjects(a) ==
    <<Object("Ground_Plane", a, "MESH", PlaneMesh, Vec(0, -10 * Unit, 0), <<PlaneMat>>),
      Object("Sun", a, "LIGHT", EmptyMesh, Vec(5 * Unit, 5 * Unit, 10 * Unit), <<>>),
      Object("LightTarget", a, "EMPTY", EmptyMesh, Vec(0, 0, 0), <<>>)>>

\* ------------------------------------------------ setup_camera, render_image
\* The camera position for angle 45, distance 5, height 2.
CameraLocation == Vec(353553, 353553, 2 * Unit)

\* The objects setup_camera links into the scene: cam_obj and target.
CameraObjects(a) ==
    <<Object("Camera", a, "CAMERA", EmptyMesh, CameraLocation, <<>>),
      Object("Target", a, "EMPTY", EmptyMesh, Vec(0, 0, 0), <<>>)>>

\* A mutant of RenderCleanup: the camera target is left in the scene.
RenderCleanupCameraOnly(objs, a) == RemoveObject(objs, Ref(CameraObjects(a)[1]))

\* bpy.data.objects.remove(cam_obj); bpy.data.objects.remove(target)
RenderCleanup(objs, a) ==
    RemoveObject(RemoveObject(objs, Ref(CameraObjects(a)[1])), Ref(CameraObjects(a)[2]))

\* ------------------------------------------------------- process_glb_files
\* A mutant of StatementOrder: remove_textures is called before reduce_vertices.
StatementOrderSwapped ==
    <<"clear", "import", "merge", "check", "strip", "reduce", "helpers", "mkdir",
      "render_setup", "render", "render_cleanup", "export", "next">>

\* The statements of the loop body, in program order.
StatementOrder ==
    <<"clear", "import", "merge", "check", "reduce", "strip", "helpers", "mkdir",
      "render_setup", "render", "render_cleanup", "export", "next">>

\* The statement that follows statement p.
NextPc(p) ==
    LET o == StatementOrder
    IN o[1 + CHOOSE i \in 1..Len(o) : o[i] = p]

\* A mutant of Skips: an asset without meshes is not skipped.
SkipsNever(ref) == FALSE

\* if not merged_obj: continue
Skips(ref) == ref = NoneRef

TypeOK ==
    /\ target \in 1..MaxTarget
    /\ nfiles \in 0..NumFiles
    /\ cur \in 1..(NumFiles + 1)
    /\ pc \in Range(StatementOrder) \cup {"start", "finished", "aborted"}

Init ==
    /\ target \in 1..MaxTarget
    /\ nfiles \in 0..NumFiles
    /\ pc = "start"
    /\ cur = 1
    /\ objects = DefaultScene
    /\ data = DataOf(DefaultScene)
    /\ merged = NoneRef
    /\ sceneCamera = Ref(DefaultScene[3])
    /\ filepath = DefaultFilepath
    /\ original_filepath = DefaultFilepath
    /\ fs = {}
    /\ json = [a \in Files |-> NoExport]
    /\ kind = [a \in Files |-> 0]
    /\ trace = [a \in Files |-> <<>>]
    /\ reduction = [a \in Files |-> NoReduction]
    /\ preRender = [objects |-> <<>>, filepath |-> DefaultFilepath]
    /\ renders = [a \in Files |-> 0]

Stage(name) == trace' = [trace EXCEPT ![cur] = Append(@, name)]

\* An exception leaves process_glb_files: nothing catches it.
Raise == pc' = "aborted"

\* os.makedirs(output_folder); glob; the early return on an empty batch.
Start ==
    /\ pc = "start"
    /\ \E ok \in BOOLEAN :
        IF ok
        THEN /\ fs' = fs \cup {RootFolder}
             /\ pc' = IF nfiles = 0 THEN "finished" ELSE "clear"
        ELSE /\ Raise
             /\ UNCHANGED fs
    /\ UNCHANGED <<target, nfiles, cur, objects, data, merged, sceneCamera, filepath,
                   original_filepath, json, kind, trace, reduction, preRender, renders>>

\* clear_scene(): select all objects and delete them. The datablocks stay in
\* bpy.data; scene.camera no longer points to an object.
ClearScene ==
    /\ pc = "clear"
    /\ objects' = <<>>
    /\ sceneCamera' = NoneRef
    /\ pc' = NextPc("clear")
    /\ UNCHANGED <<target, nfiles, cur, data, merged, filepath, original_filepath,
                   fs, json, kind, trace, reduction, preRender, renders>>

\* import_glb(glb_file)
ImportGlb ==
    /\ pc = "import"
    /\ \E k \in AssetKinds :
        /\ objects' = objects \o AssetObjects(k, cur)
        /\ data' = data \cup DataOf(AssetObjects(k, cur))
        /\ kind' = [kind EXCEPT ![cur] = k]
    /\ Stage("Staged")
    /\ pc' = NextPc("import")
    /\ UNCHANGED <<target, nfiles, cur, merged, sceneCamera, filepath,
                   original_filepath, fs, json, reduction, preRender, renders>>

\* merged_obj = merge_all_meshes()
Merge ==
    /\ pc = "merge"
    /\ LET r == MergeAllMeshes(objects) IN
        /\ objects' = r.objects
        /\ merged' = Ref(r.ret)
        /\ IF r.ret # None THEN Stage("Merged") ELSE UNCHANGED trace
    /\ pc' = NextPc("merge")
    /\ UNCHANGED <<target, nfiles, cur, data, sceneCamera, filepath, original_filepath,
                   fs, json, kind, reduction, preRender, renders>>

\* The end of one loop iteration: the next file, or the end of the batch.
Advance ==
    /\ cur' = cur + 1
    /\ pc' = IF cur < nfiles THEN "clear" ELSE "finished"

\* if not merged_obj: print(...); continue
Check ==
    /\ pc = "check"
    /\ IF Skips(merged)
       THEN Stage("Skipped") /\ Advance
       ELSE pc' = NextPc("check") /\ UNCHANGED <<cur, trace>>
    /\ UNCHANGED <<target, nfiles, objects, data, merged, sceneCamera, filepath,
                   original_filepath, fs, json, kind, reduction, preRender, renders>>

\* reduce_vertices(merged_obj, target_vertex_count)
Reduce ==
    /\ pc = "reduce"
    /\ LET obj == Lookup(objects, merged)
           initial == Len(obj.mesh.verts)
       IN IF obj.type # "MESH"
          THEN \* raise TypeError
               /\ Raise
               /\ UNCHANGED <<objects, reduction, trace>>
          ELSE IF WithinBudget(initial, target)
          THEN /\ reduction' = [reduction EXCEPT ![cur] =
                      [ran |-> TRUE, initial |-> initial, final |-> initial,
                       ratio |-> <<0, 1>>, decimated |-> FALSE, welded |-> FALSE,
                       before |-> obj.mesh, after |-> obj.mesh]]
               /\ UNCHANGED objects
               /\ Stage("Reduced")
               /\ pc' = NextPc("reduce")
          ELSE \E m \in DecimateOutcomes(obj.mesh, DecimateRatio(target, initial)) :
                 LET w == Weld(m) IN
                 /\ objects' = ReplaceObject(objects, [obj EXCEPT !.mesh = w])
                 /\ reduction' = [reduction EXCEPT ![cur] =
                      [ran |-> TRUE, initial |-> initial, final |-> Len(w.verts),
                       ratio |-> DecimateRatio(target, initial),
                       decimated |-> TRUE, welded |-> TRUE,
                       before |-> obj.mesh, after |-> w]]
                 /\ Stage("Reduced")
                 /\ pc' = NextPc("reduce")
    /\ UNCHANGED <<target, nfiles, cur, data, merged, sceneCamera, filepath,
                   original_filepath, fs, json, kind, preRender, renders>>

\* remove_textures(merged_obj)
Strip ==
    /\ pc = "strip"
    /\ objects' = ReplaceObject(objects, RemoveTextures(Lookup(objects, merged)))
    /\ Stage("Stripped")
    /\ pc' = NextPc("strip")
    /\ UNCHANGED <<target, nfiles, cur, data, merged, sceneCamera, filepath,
                   original_filepath, fs, json, kind, reduction, preRender, renders>>

\* add_plane_and_light()
Helpers ==
    /\ pc = "helpers"
    /\ objects' = objects \o HelperObjects(cur)
    /\ data' = data \cup DataOf(HelperObjects(cur))
    /\ Stage("Helpers-Added")
    /\ pc' = NextPc("helpers")
    /\ UNCHANGED <<target, nfiles, cur, merged, sceneCamera, filepath,
                   original_filepath, fs, json, kind, reduction, preRender, renders>>

\* os.makedirs(model_folder, exist_ok=True)
Mkdir ==
    /\ pc = "mkdir"
    /\ \E ok \in BOOLEAN :
        IF ok
        THEN fs' = fs \cup {ModelFolder(cur)} /\ pc' = NextPc("mkdir")
        ELSE Raise /\ UNCHANGED fs
    /\ UNCHANGED <<target, nfiles, cur, objects, data, merged, sceneCamera, filepath,
                   original_filepath, json, kind, trace, reduction, preRender, renders>>

\* render_image, up to the render: the output path is saved, the camera and
\* its target are created, the camera becomes the scene camera and the output
\* path the image path.
RenderSetup ==
    /\ pc = "render_setup"
    /\ preRender' = [objects |-> objects, filepath |-> filepath]
    /\ original_filepath' = filepath
    /\ objects' = objects \o CameraObjects(cur)
    /\ data' = data \cup DataOf(CameraObjects(cur))
    /\ sceneCamera' = Ref(CameraObjects(cur)[1])
    /\ filepath' = ImagePath(cur)
    /\ pc' = NextPc("render_setup")
    /\ UNCHANGED <<target, nfiles, cur, merged, fs, json, kind, trace, reduction, renders>>

\* bpy.ops.render.render(write_still=True): the image is written to the
\* scene's output path, or the operator raises.
Render ==
    /\ pc = "render"
    /\ renders' = [renders EXCEPT ![cur] = @ + 1]
    /\ \E ok \in BOOLEAN :
        IF ok
        THEN fs' = fs \cup {filepath} /\ pc' = NextPc("render")
        ELSE Raise /\ UNCHANGED fs
    /\ UNCHANGED <<target, nfiles, cur, objects, data, merged, sceneCamera, filepath,
                   original_filepath, json, kind, trace, reduction, preRender>>

\* render_image, after the render: the camera and its target are removed and
\* the output path is set back.
RenderDone ==
    /\ pc = "render_cleanup"
    /\ objects' = RenderCleanup(objects, cur)
    /\ sceneCamera' = IF Lookup(RenderCleanup(objects, cur), sceneCamera) = None
                      THEN NoneRef ELSE sceneCamera
    /\ filepath' = original_filepath
    /\ Stage("Rendered")
    /\ pc' = NextPc("render_cleanup")
    /\ UNCHANGED <<target, nfiles, cur, data, merged, original_filepath, fs, json,
                   kind, reduction, preRender, renders>>

\* export_to_json(merged_obj, json_path)
Export ==
    /\ pc = "export"
    /\ \E ok \in BOOLEAN :
        IF ok
        THEN /\ json' = [json EXCEPT ![cur] = ExportData(Lookup(objects, merged))]
             /\ fs' = fs \cup {JsonPath(cur)}
             /\ Stage("Exported")
             /\ pc' = NextPc("export")
        ELSE \* open(output_filepath, 'w') raises
             /\ Raise
             /\ UNCHANGED <<json, fs, trace>>
    /\ UNCHANGED <<target, nfiles, cur, objects, data, merged, sceneCamera, filepath,
                   original_filepath, kind, reduction, preRender, renders>>

\* The loop body has run to its end for this file.
NextFile ==
    /\ pc = "next"
    /\ Stage("Done")
    /\ Advance
    /\ UNCHANGED <<target, nfiles, objects, data, merged, sceneCamera, filepath,
                   original_filepath, fs, json, kind, reduction, preRender, renders>>

Next ==
    \/ Start
    \/ ClearScene
    \/ ImportGlb
    \/ Merge
    \/ Check
    \/ Reduce
    \/ Strip
    \/ Helpers
    \/ Mkdir
    \/ RenderSetup
    \/ Render
    \/ RenderDone
    \/ Export
    \/ NextFile

Spec == Init /\ [][Next]_vars

\* ----------------------------------------------------------------- claims
\* What import_glb put into the scene for batch file a.
Imported(a) == IF kind[a] = 0 THEN <<>> ELSE AssetObjects(kind[a], a)

HasNoMesh(a) == kind[a] # 0 /\ MeshObjects(Imported(a)) = <<>>

Ended(a) == trace[a] # <<>> /\ Last(trace[a]) \in {"Done", "Skipped"}

FullOrder ==
    <<"Staged", "Merged", "Reduced", "Stripped", "Helpers-Added", "Rendered",
      "Exported", "Done">>

\* The statements of the loop body that come after reduce_vertices.
AfterReduce ==
    {"strip", "helpers", "mkdir", "render_setup", "render", "render_cleanup",
     "export", "next"}

\* C1: a failure raised while processing one asset (a failed render, an
\* output folder or file that cannot be created) never aborts the batch:
\* once the batch has stopped, every input file has been processed.
C1_FailureNeverAbortsBatch ==
    (pc \in {"finished", "aborted"} /\ RootFolder \in fs)
        => \A a \in 1..nfiles : trace[a] # <<>>

\* C2: every asset goes through Staged, Merged, Reduced, Stripped,
\* Helpers-Added, Rendered, Exported, Done in this order, no stage repeated or
\* reordered; the only other path is Staged then Skipped, taken exactly when
\* the asset has no mesh object; and no stage of an asset starts before the
\* asset before it is Done or Skipped.
C2_StageOrder ==
    \A a \in Files :
        /\ IsPrefix(trace[a], FullOrder) \/ trace[a] = <<"Staged", "Skipped">>
        /\ "Skipped" \in Range(trace[a]) => HasNoMesh(a)
        /\ "Merged" \in Range(trace[a]) => ~HasNoMesh(a)
        /\ (a > 1 /\ trace[a] # <<>>) => Ended(a - 1)
        /\ (trace[a] # <<>> /\ ~Ended(a)) => cur = a

C2_Witness ==
    /\ trace[1] = FullOrder
    /\ trace[2] = <<"Staged", "Skipped">>

\* C3: when an asset has just been staged, nothing created while processing
\* an earlier asset is still present: no scene object of an earlier asset
\* (imported, merged, helper plane, sun, light target, camera, camera target)
\* and not the material created for an earlier helper plane.
C3_NoCrossAssetLeak ==
    pc = "merge" =>
        /\ \A i \in 1..Len(objects) : objects[i].asset = cur
        /\ \A a \in 1..(cur - 1) : Datablock("MATERIAL", "Plane_Mat", a) \notin data

\* C4: an asset without mesh objects makes merge_all_meshes return None
\* without raising, and the asset is skipped: no output folder, image or JSON
\* file, no reduce, strip, helper, render or export step for it, and the batch
\* goes on to the next file.
C4_NoMeshSkipped ==
    \A a \in Files :
        HasNoMesh(a) =>
            /\ trace[a] \in {<<"Staged">>, <<"Staged", "Skipped">>}
            /\ (cur = a /\ pc = "check") => merged = NoneRef
            /\ ~(cur = a /\ pc = "aborted")
            /\ cur = a => pc \in {"merge", "check"}
            /\ fs \cap {ModelFolder(a), ImagePath(a), JsonPath(a)} = {}
            /\ json[a] = NoExport
            /\ renders[a] = 0
            /\ ~reduction[a].ran
            /\ \A i \in 1..Len(objects) :
                   objects[i].asset = a => objects[i] \in Range(Imported(a))
            /\ trace[a] = <<"Staged", "Skipped">> =>
                   /\ cur = a + 1 \/ Ended(a + 1)
                   /\ (a < nfiles /\ cur = a + 1) => pc # "finished"

C4_Witness ==
    /\ HasNoMesh(1)
    /\ trace[1] = <<"Staged", "Skipped">>
    /\ trace[2] = <<"Staged">>

\* C5: after remove_textures has run on the mesh, every material of the mesh
\* has no texture-image node and has base colour (1,1,1,1).
C5_AllMaterialsStripped ==
    (cur \in Files /\ "Stripped" \in Range(trace[cur])) =>
        LET mats == Lookup(objects, merged).mats IN
        \A i \in 1..Len(mats) :
            /\ "TEX_IMAGE" \notin mats[i].nodes
            /\ mats[i].diffuse_color = White

\* C6: for a mesh whose vertex count is at most the target, reduce_vertices
\* is a no-op: no decimate modifier is applied, no weld is run, and the
\* vertices, edges and faces of the mesh are what they were before the call.
C6_ReduceNoOp ==
    \A a \in Files :
        (reduction[a].ran /\ reduction[a].initial <= target) =>
            /\ ~reduction[a].decimated
            /\ ~reduction[a].welded
            /\ reduction[a].final = reduction[a].initial
            /\ (cur = a /\ pc \in AfterReduce) =>
                   Lookup(objects, merged).mesh = reduction[a].before

C6_Witness ==
    /\ pc = "strip"
    /\ reduction[cur].ran
    /\ reduction[cur].initial = target
    /\ reduction[cur].before.faces # <<>>

\* C7: for a mesh with more vertices than the target, reduce_vertices
\* decimates with ratio target/initial, 0 < ratio < 1, then welds, and the
\* final vertex count is strictly less than the initial one.
C7_ReduceStrictlyFewer ==
    \A a \in Files :
        (reduction[a].ran /\ reduction[a].initial > target) =>
            /\ reduction[a].ratio = <<target, reduction[a].initial>>
            /\ 0 < reduction[a].ratio[1]
            /\ reduction[a].ratio[1] < reduction[a].ratio[2]
            /\ reduction[a].decimated
            /\ reduction[a].welded
            /\ reduction[a].final < reduction[a].initial

\* The world positions of the vertices of an object, in vertex order.
WorldVerts(o) == [i \in 1..Len(o.mesh.verts) |-> World(o, o.mesh.verts[i])]

\* The sizes of the faces of an object, in face order.
FaceSizes(o) == [i \in 1..Len(o.mesh.faces) |-> Len(o.mesh.faces[i])]

\* C8: with one or more mesh objects in the scene, merge_all_meshes leaves
\* exactly one mesh object and returns it: the first mesh object of the
\* enumeration, with its transform, holding the geometry of all mesh objects
\* that were present; the other mesh objects are gone, and a single mesh
\* object is left exactly as it was.
C8_MergeKeepsFirst ==
    (pc = "check" /\ MeshObjects(Imported(cur)) # <<>>) =>
        LET ms == MeshObjects(Imported(cur))
            m == Lookup(objects, merged)
        IN /\ Len(MeshObjects(objects)) = 1
           /\ MeshObjects(objects)[1] = m
           /\ merged = Ref(ms[1])
           /\ m.loc = ms[1].loc /\ m.rot = ms[1].rot /\ m.scale = ms[1].scale
           /\ WorldVerts(m) = Flatten([i \in 1..Len(ms) |-> WorldVerts(ms[i])])
           /\ Len(m.mesh.edges) = Len(Flatten([i \in 1..Len(ms) |-> ms[i].mesh.edges]))
           /\ FaceSizes(m) = Flatten([i \in 1..Len(ms) |-> FaceSizes(ms[i])])
           /\ SelectSeq(objects, LAMBDA o : ~IsMeshObject(o))
                  = SelectSeq(Imported(cur), LAMBDA o : ~IsMeshObject(o))
           /\ Len(ms) = 1 => m = ms[1]

C8_Witness ==
    /\ pc = "check"
    /\ Len(MeshObjects(Imported(cur))) = 3
    /\ Len(objects) = 2

\* C9: export_to_json keeps the topology of the mesh: "v" has one entry per
\* vertex, in vertex order (the rounded world position), "e" and "f" hold the
\* edges and faces of the mesh element by element in the mesh's order, the
\* polygons not triangulated, so the three counts read back from the JSON are
\* the counts of the mesh.
C9_ExportKeepsTopology ==
    pc = "next" =>
        LET m == Lookup(objects, merged)
            j == json[cur]
        IN /\ JsonPath(cur) \in fs
           /\ Len(j.v) = Len(m.mesh.verts)
           /\ Len(j.e) = Len(m.mesh.edges)
           /\ Len(j.f) = Len(m.mesh.faces)
           /\ \A i \in 1..Len(j.v) : \A k \in 1..3 :
                  Abs(10 * j.v[i][k] - World(m, m.mesh.verts[i])[k]) <= 5
           /\ \A i \in 1..Len(j.e) :
                  j.e[i] = <<m.mesh.edges[i][1] - 1, m.mesh.edges[i][2] - 1>>
           /\ \A i \in 1..Len(j.f) :
                  /\ Len(j.f[i]) = Len(m.mesh.faces[i])
                  /\ \A k \in 1..Len(j.f[i]) : j.f[i][k] = m.mesh.faces[i][k] - 1

C9_Witness ==
    /\ pc = "next"
    /\ \E i \in 1..Len(json[cur].f) : Len(json[cur].f[i]) = 4
    /\ Len(json[cur].e) > 4

\* C10: when render_image has returned, the camera and the camera target it
\* created are gone, the scene's output path is the one from before the call,
\* every other scene object is as it was before the call, none added and none
\* removed, and exactly one render was issued, which wrote the image.
C10_RenderLeavesScene ==
    pc = "export" =>
        /\ \A i \in 1..Len(objects) : objects[i] \notin Range(CameraObjects(cur))
        /\ filepath = preRender.filepath
        /\ objects = preRender.objects
        /\ renders[cur] = 1
        /\ ImagePath(cur) \in fs

C10_Witness ==
    /\ pc = "export"
    /\ Len(preRender.objects) > 3
    /\ Datablock("CAMERA", "Camera", cur) \in data

====
